---------------------------- MODULE Spec2Model ----------------------------
(***************************************************************************)
(* Model of the OTLP collector of otelservices: the three Export handlers, *)
(* the per-signal channels, the batch workers (processSpans,               *)
(* processMetrics, processLogs), the ClickHouse writer (InsertSpans,       *)
(* InsertMetrics, InsertLogs) and the shutdown sequence of main.           *)
(*                                                                         *)
(* The pipelines of the three signals have the same code shape and share   *)
(* nothing but the context, the wait group and the store client: a run of  *)
(* the model follows the pipeline of one signal, `sig`, chosen in Init:    *)
(* its channel, its WorkerCount workers, its table, and the Export calls   *)
(* of its collector.                                                       *)
(*                                                                         *)
(* A second specification, CallSpec, follows single calls made from        *)
(* outside the pipeline: a direct call of a writer function, as the tests  *)
(* of the clickhouse package make them.  The call and its inputs are `req`,*)
(* what it has done so far is `res`; the pipeline does not run.            *)
(***************************************************************************)
EXTENDS Integers, Sequences, FiniteSets, TLC

(***************************************************************************)
(* Bounds of the model.                                                    *)
(***************************************************************************)
\* performance.worker_count: goroutines started per signal
WorkerCount == 2
\* performance.batch_size
BatchSize == 2
\* performance.queue_size: capacity of each channel
QueueSize == 1
\* number of Export calls the transport delivers in a run
MaxHandlers == 2
\* number of records carried by all envelopes of a run
MaxRecords == 2
\* granularity of the hand-off timer, in milliseconds
WaitStepMs == 50
\* granularity of the clock that runs while main waits for the workers, in seconds
ClockStepS == 15
\* the clock stops this many steps after shutdown_timeout
MaxOvertime == 1
\* number of times CallSpec repeats a direct writer call
MaxCalls == 3
\* width of the model's timestamps; the program's are 64 bits wide
TimeBits == 3
\* performance.batch_timeout, in units of TimerSpec's clock
BatchTimeout == 2

(***************************************************************************)
(* Program constants.                                                      *)
(***************************************************************************)
\* time.After(100 * time.Millisecond) in the Export handlers
HandoffTimeoutMs == 100
\* DefaultConfig: Performance.RetryMaxAttempts
RetryMaxAttempts == 5
\* DefaultConfig: Server.ShutdownTimeout, in seconds
ShutdownTimeoutS == 30
\* QueryMetrics: "time.Since(req.StartTime) > 30*24*time.Hour", in days
RawWindowDays == 30
\* QueryMetrics: "time.Since(req.StartTime) > 90*24*time.Hour", in days
FiveMinuteWindowDays == 90
\* QueryTraces, QueryLogs: "if req.Limit == 0 { req.Limit = 100 }"
DefaultLimit == 100

Signals == {"spans", "metrics", "logs"}

\* startBatchProcessor: WorkerCount goroutines per signal
Workers == 1..WorkerCount

Handlers == 1..MaxHandlers

RecordIds == 1..MaxRecords

VARIABLES
    sig,         \* the signal whose pipeline the run follows
    mainpc,      \* position of main in its shutdown sequence
    ready,       \* HealthCheck.ready
    ctxDone,     \* the context passed to startBatchProcessor is cancelled
    grpc,        \* state of grpcServer: "serving", "stopping", "stopped"
    storeClosed, \* chClient.Close has run
    waitedS,     \* seconds main has spent in collector.wg.Wait
    queue,       \* the channel: spanChan, metricChan or logChan
    batch,       \* each worker's accumulator
    wpc,         \* each worker's position: "select", "insert", "returned", "done"
    wcause,      \* which select case called flush: "size", "tick", "shutdown"
    wctx,        \* the context was cancelled when flush called the writer
    wfault,      \* what the driver did to the writer call that has returned
    wcall,       \* the driver calls the writer call made
    werr,        \* the error the writer call returned
    attempts,    \* writer calls flush has made for the current batch
    store,       \* rows committed to the table: otel_traces, otel_metrics or otel_logs
    hpc,         \* each Export call's position
    hreq,        \* the envelope of the Export call
    hidx,        \* number of records the loop has dealt with
    hwaited,     \* milliseconds the current select has been blocked
    hsent,       \* records the call sent on the channel
    hlost,       \* records the call dropped at the hand-off timeout
    hresp,       \* response and error returned by the call
    recvCount,   \* how many times each record was received from the channel
    callCount,   \* how many writer calls each record was handed to
    received,    \* the counter ReceivedSpans, ReceivedMetrics or ReceivedLogs
    nextId,      \* records decoded so far
    storageWriteErrors, \* the counter StorageWrites{table, "error"}
    req,         \* CallSpec: the call that is followed, with its inputs
    res,         \* CallSpec: what the call has done and returned
    tickIn,      \* TimerSpec: time until each worker's ticker fires next
    tickPending, \* TimerSpec: a tick waits in ticker.C of the worker
    batchAge,    \* TimerSpec: time since the first record of the batch was appended
    ticked,      \* TimerSpec: some ticker has fired
    taken,       \* TimerSpec: records each worker has received from the channel
    sizeFlushes  \* TimerSpec: flushes each worker's receive case has called

vars == <<sig, mainpc, ready, ctxDone, grpc, storeClosed, waitedS, queue, batch,
          wpc, wcause, wctx, wfault, wcall, werr, attempts, store, hpc, hreq, hidx,
          hwaited, hsent, hlost, hresp, recvCount, callCount,
          received, nextId, storageWriteErrors, req, res,
          tickIn, tickPending, batchAge, ticked, taken, sizeFlushes>>

callVars == <<req, res>>
timeVars == <<tickIn, tickPending, batchAge, ticked, taken, sizeFlushes>>
mainVars == <<sig, mainpc, ready, ctxDone, grpc, storeClosed, waitedS>>
workerVars == <<batch, wpc, wcause, wctx, wfault, wcall, werr, attempts, store,
                recvCount, callCount>>
handlerVars == <<hpc, hreq, hidx, hwaited, hsent, hlost, hresp,
                 received, nextId>>

(***************************************************************************)
(* Sequences.                                                              *)
(***************************************************************************)
Range(s) == {s[i] : i \in 1..Len(s)}

RECURSIVE FlattenSeq(_)
FlattenSeq(ss) == IF ss = <<>> THEN <<>> ELSE Head(ss) \o FlattenSeq(Tail(ss))

(***************************************************************************)
(* OTLP envelopes.  An envelope is a sequence of resource blocks, each a   *)
(* sequence of scope blocks, each a sequence of records (spans, metric     *)
(* data points or log records), here numbered 1..N in envelope order.      *)
(***************************************************************************)
Envelopes ==
    { <<>>,
      << << <<1>> >> >>,
      << << <<1, 2>> >> >>,
      << << <<1>>, <<2>> >> >>,
      << << <<1>> >>, << <<2, 3>> >> >> }

\* the envelope with its records renumbered base+1..base+N
Rebase(env, base) ==
    [r \in DOMAIN env |->
        [s \in DOMAIN env[r] |->
            [k \in DOMAIN env[r][s] |-> env[r][s][k] + base]]]

\* the scope blocks of an envelope, in the order "for rs ... for ss ..." visits them
ScopesOf(env) == FlattenSeq(env)

\* a loop that visits only the first scope block of the envelope
RecordsOfFirstScope(env) ==
    IF ScopesOf(env) = <<>> THEN <<>> ELSE Head(ScopesOf(env))

\* the records of an envelope, in the order the three nested loops visit them
RecordsOf(env) == FlattenSeq(ScopesOf(env))

(***************************************************************************)
(* The ClickHouse writer: InsertSpans, InsertMetrics and InsertLogs have   *)
(* the same shape: empty-batch check, PrepareBatch, Append per row, Send.  *)
(* The driver's answer is an input: fault "none", or "prepare", "append"   *)
(* (at row `at`), "send" for the call that fails.  PrepareBatch with a     *)
(* cancelled context fails with the context's error.  A failed Send        *)
(* commits nothing.                                                        *)
(***************************************************************************)
NoCall == [prepares |-> 0, appended |-> <<>>, sends |-> 0]

FaultKinds == {"none", "prepare", "append", "send"}

PrepareBatchFails(cancelled, fault) == cancelled \/ fault = "prepare"

\* the loop "for _, s := range spans { err := batch.Append(...) }" from row i on:
\* the number of rows appended when the loop ends or returns the error
RECURSIVE AppendLoop(_, _, _, _)
AppendLoop(rows, i, fault, at) ==
    IF i > Len(rows) THEN Len(rows)
    ELSE IF fault = "append" /\ at = i THEN i - 1
    ELSE AppendLoop(rows, i + 1, fault, at)

AppendedCount(rows, fault, at) == AppendLoop(rows, 1, fault, at)

AppendFails(rows, fault, at) == AppendedCount(rows, fault, at) < Len(rows)

\* a writer that sends the rows appended so far when an Append fails
InsertPartial(rows, cancelled, fault, at) ==
    IF Len(rows) = 0 THEN
        [prepares |-> 0, appended |-> <<>>, sends |-> 0, committed |-> <<>>,
         err |-> "nil"]
    ELSE IF PrepareBatchFails(cancelled, fault) THEN
        [prepares |-> 1, appended |-> <<>>, sends |-> 0, committed |-> <<>>,
         err |-> "failed to prepare batch"]
    ELSE IF AppendFails(rows, fault, at) THEN
        [prepares |-> 1, appended |-> SubSeq(rows, 1, AppendedCount(rows, fault, at)),
         sends |-> 1,
         committed |-> SubSeq(rows, 1, AppendedCount(rows, fault, at)),
         err |-> "failed to append"]
    ELSE IF fault = "send" THEN
        [prepares |-> 1, appended |-> rows, sends |-> 1, committed |-> <<>>,
         err |-> "failed to send batch"]
    ELSE
        [prepares |-> 1, appended |-> rows, sends |-> 1, committed |-> rows,
         err |-> "nil"]

\* a writer without the empty-batch return
InsertUnguarded(rows, cancelled, fault, at) ==
    IF PrepareBatchFails(cancelled, fault) THEN
        [prepares |-> 1, appended |-> <<>>, sends |-> 0, committed |-> <<>>,
         err |-> "failed to prepare batch"]
    ELSE IF AppendFails(rows, fault, at) THEN
        [prepares |-> 1, appended |-> SubSeq(rows, 1, AppendedCount(rows, fault, at)),
         sends |-> 0, committed |-> <<>>, err |-> "failed to append"]
    ELSE IF fault = "send" THEN
        [prepares |-> 1, appended |-> rows, sends |-> 1, committed |-> <<>>,
         err |-> "failed to send batch"]
    ELSE
        [prepares |-> 1, appended |-> rows, sends |-> 1, committed |-> rows,
         err |-> "nil"]

Insert(rows, cancelled, fault, at) ==
    IF Len(rows) = 0 THEN
        [prepares |-> 0, appended |-> <<>>, sends |-> 0, committed |-> <<>>,
         err |-> "nil"]
    ELSE IF PrepareBatchFails(cancelled, fault) THEN
        [prepares |-> 1, appended |-> <<>>, sends |-> 0, committed |-> <<>>,
         err |-> IF cancelled THEN "failed to prepare batch: context canceled"
                 ELSE "failed to prepare batch"]
    ELSE IF AppendFails(rows, fault, at) THEN
        [prepares |-> 1, appended |-> SubSeq(rows, 1, AppendedCount(rows, fault, at)),
         sends |-> 0, committed |-> <<>>, err |-> "failed to append"]
    ELSE IF fault = "send" THEN
        [prepares |-> 1, appended |-> rows, sends |-> 1, committed |-> <<>>,
         err |-> "failed to send batch"]
    ELSE
        [prepares |-> 1, appended |-> rows, sends |-> 1, committed |-> rows,
         err |-> "nil"]

(***************************************************************************)
(* Initial state: main has reached line 385 (waiting for a signal): the    *)
(* workers run, the gRPC server serves, the ready flag is set.             *)
(***************************************************************************)
\* a ticker that fires every second batch_timeout
TickerPeriodDouble == 2 * BatchTimeout

\* ticker := time.NewTicker(c.config.Performance.BatchTimeout)
TickerPeriod == BatchTimeout

PipelineInit ==
    /\ tickIn = [w \in Workers |-> TickerPeriod]
    /\ tickPending = [w \in Workers |-> FALSE]
    /\ batchAge = [w \in Workers |-> 0]
    /\ ticked = FALSE
    /\ taken = [w \in Workers |-> 0]
    /\ sizeFlushes = [w \in Workers |-> 0]
    /\ mainpc = "serving"
    /\ ready = TRUE
    /\ ctxDone = FALSE
    /\ grpc = "serving"
    /\ storeClosed = FALSE
    /\ waitedS = 0
    /\ queue = <<>>
    /\ batch = [w \in Workers |-> <<>>]
    /\ wpc = [w \in Workers |-> "select"]
    /\ wcause = [w \in Workers |-> "none"]
    /\ wctx = [w \in Workers |-> FALSE]
    /\ wfault = [w \in Workers |-> "none"]
    /\ wcall = [w \in Workers |-> NoCall]
    /\ werr = [w \in Workers |-> "nil"]
    /\ attempts = [w \in Workers |-> 0]
    /\ store = {}
    /\ hpc = [h \in Handlers |-> "idle"]
    /\ hreq = [h \in Handlers |-> <<>>]
    /\ hidx = [h \in Handlers |-> 0]
    /\ hwaited = [h \in Handlers |-> 0]
    /\ hsent = [h \in Handlers |-> <<>>]
    /\ hlost = [h \in Handlers |-> <<>>]
    /\ hresp = [h \in Handlers |-> "none"]
    /\ recvCount = [id \in RecordIds |-> 0]
    /\ callCount = [id \in RecordIds |-> 0]
    /\ received = 0
    /\ nextId = 0
    /\ storageWriteErrors = 0

\* no call from outside the pipeline
NoRequest == [op |-> "none"]

Init ==
    /\ sig \in Signals
    /\ PipelineInit
    /\ req = NoRequest
    /\ res = NoRequest

(***************************************************************************)
(* Export handlers.                                                        *)
(***************************************************************************)
\* a channel made one slot larger than queue_size
ChanCapOneMore == QueueSize + 1

\* NewCollector: make(chan models.Span, cfg.Performance.QueueSize), and the
\* same for metricChan and logChan
ChanCap == QueueSize

\* the record the loop of the Export call is at
NextRecord(h) == RecordsOf(hreq[h])[hidx[h] + 1]

\* the transport accepts an Export call for spans or logs and the handler
\* reaches its first select
ExportStart(h, env) ==
    /\ grpc = "serving"
    /\ hpc[h] = "idle"
    /\ sig \in {"spans", "logs"}
    /\ nextId + Len(RecordsOf(env)) <= MaxRecords
    /\ hpc' = [hpc EXCEPT ![h] = "running"]
    /\ hreq' = [hreq EXCEPT ![h] = Rebase(env, nextId)]
    /\ nextId' = nextId + Len(RecordsOf(env))
    /\ UNCHANGED <<hidx, hwaited, hsent, hlost, hresp, received>>
    /\ UNCHANGED <<callVars, timeVars, storageWriteErrors, mainVars, workerVars, queue>>

\* case tc.spanChan <- modelSpan / case lc.logChan <- modelLog
ExportSend(h) ==
    /\ hpc[h] = "running"
    /\ hidx[h] < Len(RecordsOf(hreq[h]))
    /\ Len(queue) < ChanCap
    /\ queue' = Append(queue, NextRecord(h))
    /\ received' = received + 1
    /\ hsent' = [hsent EXCEPT ![h] = Append(@, NextRecord(h))]
    /\ hidx' = [hidx EXCEPT ![h] = @ + 1]
    /\ hwaited' = [hwaited EXCEPT ![h] = 0]
    /\ UNCHANGED <<hpc, hreq, hlost, hresp, nextId>>
    /\ UNCHANGED <<callVars, timeVars, storageWriteErrors, mainVars, workerVars>>

\* a timer that fires one step late
TimerRunningLate(h) == hwaited[h] <= HandoffTimeoutMs

\* the timer of time.After has not fired yet
TimerRunning(h) == hwaited[h] < HandoffTimeoutMs

\* the select is blocked: the channel is full and the timer has not fired
ExportWait(h) ==
    /\ hpc[h] = "running"
    /\ hidx[h] < Len(RecordsOf(hreq[h]))
    /\ Len(queue) >= ChanCap
    /\ TimerRunning(h)
    /\ hwaited' = [hwaited EXCEPT ![h] = @ + WaitStepMs]
    /\ UNCHANGED <<hpc, hreq, hidx, hsent, hlost, hresp,
                   received, nextId>>
    /\ UNCHANGED <<callVars, timeVars, storageWriteErrors, mainVars, workerVars, queue>>

\* case <-time.After(100 * time.Millisecond): log a warning, next record
ExportTimeout(h) ==
    /\ hpc[h] = "running"
    /\ hidx[h] < Len(RecordsOf(hreq[h]))
    /\ ~TimerRunning(h)
    /\ hlost' = [hlost EXCEPT ![h] = Append(@, NextRecord(h))]
    /\ hidx' = [hidx EXCEPT ![h] = @ + 1]
    /\ hwaited' = [hwaited EXCEPT ![h] = 0]
    /\ UNCHANGED <<hpc, hreq, hsent, hresp, received, nextId>>
    /\ UNCHANGED <<callVars, timeVars, storageWriteErrors, mainVars, workerVars, queue>>

\* return &coltracepb.ExportTraceServiceResponse{}, nil
ExportReturn(h) ==
    /\ hpc[h] = "running"
    /\ hidx[h] = Len(RecordsOf(hreq[h]))
    /\ hpc' = [hpc EXCEPT ![h] = "returned"]
    /\ hresp' = [hresp EXCEPT ![h] = "ok"]
    /\ UNCHANGED <<hreq, hidx, hwaited, hsent, hlost, received,
                   nextId>>
    /\ UNCHANGED <<callVars, timeVars, storageWriteErrors, mainVars, workerVars, queue>>

\* MetricsCollector.Export: counts the scope blocks and returns; it has no
\* suspension point, so the whole call is one step
ExportMetrics(h, env) ==
    /\ sig = "metrics"
    /\ grpc = "serving"
    /\ hpc[h] = "idle"
    /\ nextId + Len(RecordsOf(env)) <= MaxRecords
    /\ hpc' = [hpc EXCEPT ![h] = "returned"]
    /\ hreq' = [hreq EXCEPT ![h] = Rebase(env, nextId)]
    /\ nextId' = nextId + Len(RecordsOf(env))
    /\ received' = received + Len(ScopesOf(env))
    /\ hresp' = [hresp EXCEPT ![h] = "ok"]
    /\ UNCHANGED <<hidx, hwaited, hsent, hlost>>
    /\ UNCHANGED <<callVars, timeVars, storageWriteErrors, mainVars, workerVars, queue>>


(***************************************************************************)
(* Batch workers: processSpans, processMetrics, processLogs.               *)
(***************************************************************************)
\* a receive case that flushes every record at once
BatchFullEarly(b) == Len(b) >= 1

\* a receive case that flushes one record late
BatchFullLate(b) == Len(b) > BatchSize

\* if len(batch) >= c.config.Performance.BatchSize
BatchFull(b) == Len(b) >= BatchSize

\* a flush without the empty-batch check
FlushNeverSkips(b) == FALSE

\* flush: "if len(batch) == 0 { return }"
FlushSkips(b) == Len(b) = 0

\* the record a receive on the channel yields, and what it leaves
Dequeued(q) == [rec |-> Head(q), rest |-> Tail(q)]

\* a flush that calls the writer with a context of its own, never cancelled
CallWriterFreshContext(w, rows, cause) ==
    /\ wpc' = [wpc EXCEPT ![w] = "insert"]
    /\ wcause' = [wcause EXCEPT ![w] = cause]
    /\ wctx' = [wctx EXCEPT ![w] = FALSE]
    /\ attempts' = [attempts EXCEPT ![w] = @ + 1]
    /\ callCount' = [id \in RecordIds |->
           IF id \in Range(rows) THEN callCount[id] + 1 ELSE callCount[id]]

\* flush calls c.chClient.InsertSpans(ctx, batch) with the worker's context
CallWriter(w, rows, cause) ==
    /\ wpc' = [wpc EXCEPT ![w] = "insert"]
    /\ wcause' = [wcause EXCEPT ![w] = cause]
    /\ wctx' = [wctx EXCEPT ![w] = ctxDone]
    /\ attempts' = [attempts EXCEPT ![w] = @ + 1]
    /\ callCount' = [id \in RecordIds |->
           IF id \in Range(rows) THEN callCount[id] + 1 ELSE callCount[id]]

\* case span := <-c.trace.spanChan: append, flush when the batch is full
Receive(w) ==
    /\ wpc[w] = "select"
    /\ queue # <<>>
    /\ LET d == Dequeued(queue)
           nb == Append(batch[w], d.rec)
       IN  /\ queue' = d.rest
           /\ recvCount' = [recvCount EXCEPT ![d.rec] = @ + 1]
           /\ batch' = [batch EXCEPT ![w] = nb]
           /\ IF BatchFull(nb) /\ ~FlushSkips(nb)
              THEN CallWriter(w, nb, "size")
              ELSE UNCHANGED <<wpc, wcause, wctx, attempts, callCount>>
    /\ UNCHANGED <<wfault, wcall, werr, store>>
    /\ UNCHANGED <<callVars, storageWriteErrors, mainVars, handlerVars>>

\* the receive case, at any time
WorkerRecv(w) == Receive(w) /\ UNCHANGED timeVars

\* case <-ticker.C: flush
Tick(w) ==
    /\ wpc[w] = "select"
    /\ IF FlushSkips(batch[w])
       THEN UNCHANGED <<wpc, wcause, wctx, attempts, callCount>>
       ELSE CallWriter(w, batch[w], "tick")
    /\ UNCHANGED <<batch, wfault, wcall, werr, store, recvCount>>
    /\ UNCHANGED <<callVars, storageWriteErrors, mainVars, handlerVars, queue>>

\* the tick case, at any time: the ticker runs on its own
WorkerTick(w) == Tick(w) /\ UNCHANGED timeVars

\* case <-ctx.Done(): flush, return (the deferred wg.Done runs)
WorkerCtxDone(w) ==
    /\ wpc[w] = "select"
    /\ ctxDone
    /\ IF FlushSkips(batch[w])
       THEN /\ wpc' = [wpc EXCEPT ![w] = "done"]
            /\ UNCHANGED <<wcause, wctx, attempts, callCount>>
       ELSE CallWriter(w, batch[w], "shutdown")
    /\ UNCHANGED <<batch, wfault, wcall, werr, store, recvCount>>
    /\ UNCHANGED <<callVars, timeVars, storageWriteErrors, mainVars, handlerVars, queue>>

\* the writer call returns to flush; what it committed is in the store
InsertReturn(w, fault, at) ==
    /\ wpc[w] = "insert"
    /\ fault \in FaultKinds
    /\ at \in (IF fault = "append" THEN 1..Len(batch[w]) ELSE {0})
    /\ LET r == Insert(batch[w], wctx[w], fault, at)
       IN  /\ store' = store \cup Range(r.committed)
           /\ werr' = [werr EXCEPT ![w] = r.err]
           /\ wcall' = [wcall EXCEPT ![w] =
                  [prepares |-> r.prepares, appended |-> r.appended,
                   sends |-> r.sends]]
    /\ wfault' = [wfault EXCEPT ![w] = fault]
    /\ wpc' = [wpc EXCEPT ![w] = "returned"]
    /\ UNCHANGED <<batch, wcause, wctx, attempts, recvCount, callCount>>
    /\ UNCHANGED <<callVars, timeVars, storageWriteErrors, mainVars, handlerVars, queue>>

\* a flush that keeps the batch when the writer returned an error
FlushEndKeepsFailed(w) ==
    /\ wpc[w] = "returned"
    /\ batch' = [batch EXCEPT ![w] = IF werr[w] = "nil" THEN <<>> ELSE @]
    /\ attempts' = [attempts EXCEPT ![w] = 0]
    /\ wpc' = [wpc EXCEPT ![w] = IF wcause[w] = "shutdown" THEN "done" ELSE "select"]
    /\ wcause' = [wcause EXCEPT ![w] = "none"]
    /\ wctx' = [wctx EXCEPT ![w] = FALSE]
    /\ wfault' = [wfault EXCEPT ![w] = "none"]
    /\ wcall' = [wcall EXCEPT ![w] = NoCall]
    /\ werr' = [werr EXCEPT ![w] = "nil"]
    /\ UNCHANGED <<store, recvCount, callCount>>
    /\ UNCHANGED <<callVars, timeVars, storageWriteErrors, mainVars, handlerVars, queue>>

\* the rest of flush: the error, if any, is logged, then "batch = batch[:0]";
\* the ctx.Done case returns after it, the other cases go back to the select
FlushEnd(w) ==
    /\ wpc[w] = "returned"
    /\ batch' = [batch EXCEPT ![w] = <<>>]
    /\ attempts' = [attempts EXCEPT ![w] = 0]
    /\ wpc' = [wpc EXCEPT ![w] = IF wcause[w] = "shutdown" THEN "done" ELSE "select"]
    /\ wcause' = [wcause EXCEPT ![w] = "none"]
    /\ wctx' = [wctx EXCEPT ![w] = FALSE]
    /\ wfault' = [wfault EXCEPT ![w] = "none"]
    /\ wcall' = [wcall EXCEPT ![w] = NoCall]
    /\ werr' = [werr EXCEPT ![w] = "nil"]
    /\ UNCHANGED <<store, recvCount, callCount>>
    /\ UNCHANGED <<callVars, timeVars, storageWriteErrors, mainVars, handlerVars, queue>>

(***************************************************************************)
(* main: the shutdown sequence after "<-sigCh".                            *)
(***************************************************************************)
\* SIGINT or SIGTERM arrives: "<-sigCh" returns
Signal ==
    /\ mainpc = "serving"
    /\ mainpc' = "setReady"
    /\ UNCHANGED <<sig, ready, ctxDone, grpc, storeClosed, waitedS>>
    /\ UNCHANGED <<callVars, timeVars, storageWriteErrors, workerVars, handlerVars, queue>>

\* collector.healthCheck.SetReady(false)
MainSetReady ==
    /\ mainpc = "setReady"
    /\ ready' = FALSE
    /\ mainpc' = "cancel"
    /\ UNCHANGED <<sig, ctxDone, grpc, storeClosed, waitedS>>
    /\ UNCHANGED <<callVars, timeVars, storageWriteErrors, workerVars, handlerVars, queue>>

\* cancel()
MainCancel ==
    /\ mainpc = "cancel"
    /\ ctxDone' = TRUE
    /\ mainpc' = "gracefulStop"
    /\ UNCHANGED <<sig, ready, grpc, storeClosed, waitedS>>
    /\ UNCHANGED <<callVars, timeVars, storageWriteErrors, workerVars, handlerVars, queue>>

\* grpcServer.GracefulStop() is entered: no new RPC is accepted
MainGracefulStop ==
    /\ mainpc = "gracefulStop"
    /\ grpc' = "stopping"
    /\ mainpc' = "stopWait"
    /\ UNCHANGED <<sig, ready, ctxDone, storeClosed, waitedS>>
    /\ UNCHANGED <<callVars, timeVars, storageWriteErrors, workerVars, handlerVars, queue>>

\* grpcServer.GracefulStop() returns once the pending RPCs have finished
MainGracefulStopped ==
    /\ mainpc = "stopWait"
    /\ \A h \in Handlers : hpc[h] # "running"
    /\ grpc' = "stopped"
    /\ mainpc' = "wgWait"
    /\ UNCHANGED <<sig, ready, ctxDone, storeClosed, waitedS>>
    /\ UNCHANGED <<callVars, timeVars, storageWriteErrors, workerVars, handlerVars, queue>>

\* collector.wg.Wait() returns when every worker has called wg.Done
WaitReturns == \A w \in Workers : wpc[w] = "done"

\* time passes while main is blocked in collector.wg.Wait() and every
\* worker that has not returned is inside a writer call
MainWaiting ==
    /\ mainpc = "wgWait"
    /\ ~WaitReturns
    /\ \A w \in Workers : wpc[w] \in {"insert", "done"}
    /\ waitedS < ShutdownTimeoutS + MaxOvertime * ClockStepS
    /\ waitedS' = waitedS + ClockStepS
    /\ UNCHANGED <<sig, mainpc, ready, ctxDone, grpc, storeClosed>>
    /\ UNCHANGED <<callVars, timeVars, storageWriteErrors, workerVars, handlerVars, queue>>

\* collector.wg.Wait() returns; log "Shutdown complete"
MainWaitDone ==
    /\ mainpc = "wgWait"
    /\ WaitReturns
    /\ mainpc' = "complete"
    /\ UNCHANGED <<sig, ready, ctxDone, grpc, storeClosed, waitedS>>
    /\ UNCHANGED <<callVars, timeVars, storageWriteErrors, workerVars, handlerVars, queue>>

\* main returns: the deferred calls run, last registered first:
\* cancel(), chClient.Close(), metricsServer.Shutdown, shutdown
MainExit ==
    /\ mainpc = "complete"
    /\ ctxDone' = TRUE
    /\ storeClosed' = TRUE
    /\ mainpc' = "exited"
    /\ UNCHANGED <<sig, ready, grpc, waitedS>>
    /\ UNCHANGED <<callVars, timeVars, storageWriteErrors, workerVars, handlerVars, queue>>

Next ==
    \/ \E h \in Handlers, env \in Envelopes : ExportStart(h, env)
    \/ \E h \in Handlers : ExportSend(h)
    \/ \E h \in Handlers : ExportWait(h)
    \/ \E h \in Handlers : ExportTimeout(h)
    \/ \E h \in Handlers : ExportReturn(h)
    \/ \E h \in Handlers, env \in Envelopes : ExportMetrics(h, env)
    \/ \E w \in Workers : WorkerRecv(w)
    \/ \E w \in Workers : WorkerTick(w)
    \/ \E w \in Workers : WorkerCtxDone(w)
    \/ \E w \in Workers, fault \in FaultKinds, at \in 0..BatchSize : InsertReturn(w, fault, at)
    \/ \E w \in Workers : FlushEnd(w)
    \/ Signal
    \/ MainSetReady
    \/ MainCancel
    \/ MainGracefulStop
    \/ MainGracefulStopped
    \/ MainWaiting
    \/ MainWaitDone
    \/ MainExit

Spec == Init /\ [][Next]_vars

(***************************************************************************)
(* TimerSpec: the spans pipeline with the workers' tickers on a clock.     *)
(* Every worker creates its ticker when it starts, so the tickers fire     *)
(* together every TickerPeriod; a tick waits in the ticker's channel, of   *)
(* capacity one, until the worker's select takes it.  Writer calls return  *)
(* without error and take no time, and a worker whose select has a tick or *)
(* the cancellation to take does so before time passes.  The hand-off      *)
(* timeout of Export is far shorter than batch_timeout and takes no time   *)
(* on this clock.                                                          *)
(***************************************************************************)
\* the clock stops counting a batch's age here
MaxAge == BatchTimeout + 1

\* the receive case on the clock: the first record of a batch starts its age
TimedReceive(w) ==
    /\ Receive(w)
    /\ batchAge' = [batchAge EXCEPT ![w] = IF batch[w] = <<>> THEN 0 ELSE @]
    /\ taken' = [taken EXCEPT ![w] = @ + 1]
    /\ sizeFlushes' = [sizeFlushes EXCEPT ![w] =
           IF wpc'[w] = "insert" THEN @ + 1 ELSE @]
    /\ UNCHANGED <<tickIn, tickPending, ticked>>

\* the tick case on the clock: a tick is in ticker.C
TimedTick(w) ==
    /\ tickPending[w]
    /\ Tick(w)
    /\ tickPending' = [tickPending EXCEPT ![w] = FALSE]
    /\ UNCHANGED <<tickIn, batchAge, ticked, taken, sizeFlushes>>

\* one unit of time passes; the tickers of the running workers count down
\* and fire, the batches grow older
TimePasses ==
    /\ \E w \in Workers : wpc[w] # "done"
    /\ \A w \in Workers : wpc[w] \notin {"insert", "returned"}
    /\ \A w \in Workers : wpc[w] = "select" => ~tickPending[w] /\ ~ctxDone
    /\ tickIn' = [w \in Workers |->
           IF wpc[w] = "done" THEN tickIn[w]
           ELSE IF tickIn[w] = 1 THEN TickerPeriod ELSE tickIn[w] - 1]
    /\ tickPending' = [w \in Workers |->
           IF wpc[w] = "done" THEN tickPending[w] ELSE tickIn[w] = 1]
    /\ batchAge' = [w \in Workers |->
           IF batch[w] = <<>> THEN 0
           ELSE IF batchAge[w] < MaxAge THEN batchAge[w] + 1 ELSE batchAge[w]]
    /\ ticked' = (ticked \/ \E w \in Workers : wpc[w] # "done" /\ tickIn[w] = 1)
    /\ UNCHANGED <<taken, sizeFlushes>>
    /\ UNCHANGED <<callVars, storageWriteErrors, mainVars, workerVars, handlerVars, queue>>

TimerInit ==
    /\ sig = "spans"
    /\ PipelineInit
    /\ req = NoRequest
    /\ res = NoRequest

TimerNext ==
    \/ \E h \in Handlers, env \in Envelopes : ExportStart(h, env)
    \/ \E h \in Handlers : ExportSend(h)
    \/ \E h \in Handlers : ExportWait(h)
    \/ \E h \in Handlers : ExportTimeout(h)
    \/ \E h \in Handlers : ExportReturn(h)
    \/ \E w \in Workers : TimedReceive(w)
    \/ \E w \in Workers : TimedTick(w)
    \/ \E w \in Workers : WorkerCtxDone(w)
    \/ \E w \in Workers : InsertReturn(w, "none", 0)
    \/ \E w \in Workers : FlushEnd(w)
    \/ TimePasses
    \/ Signal
    \/ MainSetReady
    \/ MainCancel
    \/ MainGracefulStop
    \/ MainGracefulStopped
    \/ MainWaitDone
    \/ MainExit

TimerSpec == TimerInit /\ [][TimerNext]_vars

(***************************************************************************)
(* CallSpec: single calls from outside the pipeline.                       *)
(***************************************************************************)
\* direct calls of InsertSpans, InsertMetrics or InsertLogs with an empty or
\* a one-row batch, a live or a cancelled context, and each answer of the driver
InsertRequests ==
    [op : {"Insert"}, signal : Signals, rows : {<<>>, <<1>>},
     cancelled : BOOLEAN, fault : FaultKinds]

(***************************************************************************)
(* The decoding done by TraceCollector.Export and LogsCollector.Export for *)
(* one record.  Timestamps are TimeBits wide unsigned numbers, as          *)
(* StartTimeUnixNano and EndTimeUnixNano are uint64.                       *)
(***************************************************************************)
TimeModulus == 2 ^ TimeBits

UnixNanos == 0..(TimeModulus - 1)

\* int64(x) of an unsigned x: values with the top bit set become negative
ToSigned(x) == IF x >= TimeModulus \div 2 THEN x - TimeModulus ELSE x

\* x - y on unsigned numbers of TimeBits bits
SubUnsigned(x, y) == (x - y + TimeModulus) % TimeModulus

\* tracepb.Span_SpanKind values 0..5 and the names the generated String()
\* method gives them
SpanKinds == 0..5

SpanKindString(k) ==
    << "SPAN_KIND_UNSPECIFIED", "SPAN_KIND_INTERNAL", "SPAN_KIND_SERVER",
       "SPAN_KIND_CLIENT", "SPAN_KIND_PRODUCER", "SPAN_KIND_CONSUMER" >>[k + 1]

\* tracepb.Status_StatusCode values 0..2 and their String() names
StatusCodes == 0..2

StatusCodeString(c) ==
    << "STATUS_CODE_UNSET", "STATUS_CODE_OK", "STATUS_CODE_ERROR" >>[c + 1]

\* the resource attributes the Export handlers ask for
SpanResourceKeys ==
    {"service.name", "service.namespace", "service.instance.id",
     "deployment.environment"}

LogResourceKeys == SpanResourceKeys \cup {"host.name"}

\* the string value a resource of the model gives each key it has
AttributeValue ==
    [k \in LogResourceKeys |->
        CASE k = "service.name" -> "checkout"
          [] k = "service.namespace" -> "shop"
          [] k = "service.instance.id" -> "i-1"
          [] k = "deployment.environment" -> "prod"
          [] k = "host.name" -> "node-1"]

\* extractStringAttribute: the type assertion is followed by a loop that
\* reads nothing, and every path ends in return ""
extractStringAttribute(resource, key) == ""

\* the models.Span that TraceCollector.Export builds for one span of a resource
SpanRecord(r) ==
    [startTime |-> ToSigned(r.start),
     endTime |-> ToSigned(r.end),
     durationNs |-> SubUnsigned(r.end, r.start),
     spanKind |-> SpanKindString(r.kind),
     statusCode |-> StatusCodeString(r.status),
     serviceName |-> extractStringAttribute(r.resource, "service.name"),
     serviceNamespace |-> extractStringAttribute(r.resource, "service.namespace"),
     serviceInstanceID |-> extractStringAttribute(r.resource, "service.instance.id"),
     deploymentEnvironment |->
         extractStringAttribute(r.resource, "deployment.environment")]

\* the models.LogRecord that LogsCollector.Export builds for one log record
LogRecordOf(r) ==
    [serviceName |-> extractStringAttribute(r.resource, "service.name"),
     serviceNamespace |-> extractStringAttribute(r.resource, "service.namespace"),
     serviceInstanceID |-> extractStringAttribute(r.resource, "service.instance.id"),
     deploymentEnvironment |->
         extractStringAttribute(r.resource, "deployment.environment"),
     hostName |-> extractStringAttribute(r.resource, "host.name")]

\* Export calls with an envelope of one span; a resource is the set of the
\* attribute keys it has
SpanRequests ==
    [op : {"ExportSpan"}, signal : {"spans"}, start : UnixNanos, end : UnixNanos,
     kind : SpanKinds, status : StatusCodes, resource : SUBSET SpanResourceKeys]

\* Export calls with an envelope of one log record
LogRequests ==
    [op : {"ExportLog"}, signal : {"logs"}, resource : SUBSET LogResourceKeys]

(***************************************************************************)
(* The query service: QueryTraces, QueryMetrics, QueryLogs.  The SQL text  *)
(* a handler builds is the sequence of the pieces it is concatenated from, *)
(* its bound arguments are a second sequence.  A request says whether its  *)
(* body is valid JSON and whether the store fails the query.               *)
(***************************************************************************)
\* what the store answers to a query that it accepted: the rows that
\* rows.Next() delivers, each scannable or not, and whether the stream then
\* ends because the store failed (rows.Next() returns false, rows.Err() is set)
Streams ==
    { [rows |-> <<>>, fails |-> FALSE],
      [rows |-> <<"row", "unscannable", "row">>, fails |-> FALSE],
      [rows |-> <<"row">>, fails |-> TRUE] }

\* "for rows.Next() { if err := rows.Scan(...); err != nil { continue };
\* spans = append(spans, span) }": the number of rows appended
RECURSIVE ScanLoop(_)
ScanLoop(rows) ==
    IF rows = <<>> THEN 0
    ELSE (IF Head(rows) = "row" THEN 1 ELSE 0) + ScanLoop(Tail(rows))

\* aggregation names a caller may send; "" is an absent field
Aggregations ==
    {"", "avg", "min", "max", "sum", "median", "avg(value) FROM otel_logs --"}

\* now - start_time in days when QueryMetrics first reads the clock
Ages == {-1, 0, RawWindowDays - 1, RawWindowDays, RawWindowDays + 1,
         FiveMinuteWindowDays - 1, FiveMinuteWindowDays, FiveMinuteWindowDays + 1}

\* the clock is read twice; a day boundary may pass between the two readings
MetricsRequests ==
    { r \in [op : {"QueryMetrics"}, signal : {"metrics"}, bodyValid : BOOLEAN,
             storeFails : BOOLEAN, metric : {"cpu", "cpu' OR '1'='1"},
             service : {"", "checkout"}, aggregation : Aggregations,
             age : Ages, age2 : Ages \cup {a + 1 : a \in Ages},
             stream : Streams] :
        r.age2 \in {r.age, r.age + 1} }

TraceRequests ==
    [op : {"QueryTraces"}, signal : {"spans"}, bodyValid : BOOLEAN,
     storeFails : BOOLEAN, traceId : {"", "4bf92f35"}, service : {"", "checkout"},
     hasStart : BOOLEAN, hasEnd : BOOLEAN, minDuration : {0, 5},
     maxDuration : {0, 9}, limit : {0, 10}, stream : Streams]

\* GET /api/v1/services/stats: the request has no body
StatsRequests ==
    [op : {"GetServiceStats"}, signal : {"spans"}, storeFails : BOOLEAN,
     stream : Streams]

LogQueryRequests ==
    [op : {"QueryLogs"}, signal : {"logs"}, bodyValid : BOOLEAN,
     storeFails : BOOLEAN, service : {"", "checkout"}, severity : {"", "ERROR"},
     traceId : {"", "4bf92f35"}, search : {"", "timeout"}, limit : {0, 10},
     stream : Streams]

\* query += " AND ..." and args = append(args, v), when the condition holds
Clause(cond, text) == IF cond THEN <<text>> ELSE <<>>

\* a table choice whose thresholds include the boundary day
TableForInclusive(age, age2) ==
    IF age >= FiveMinuteWindowDays THEN "otel_metrics_1h"
    ELSE IF age2 >= RawWindowDays THEN "otel_metrics_5m"
    ELSE "otel_metrics"

\* QueryMetrics: tableName, from the two readings of time.Since(req.StartTime)
TableFor(age, age2) ==
    IF age > FiveMinuteWindowDays THEN "otel_metrics_1h"
    ELSE IF age2 > RawWindowDays THEN "otel_metrics_5m"
    ELSE "otel_metrics"

\* QueryMetrics: req.Aggregation after the default is applied
AggregationOf(r) == IF r.aggregation = "" THEN "avg" ELSE r.aggregation

\* QueryMetrics: aggFunc, as the pieces it is made of
AggFunc(aggregation, tableName) ==
    IF tableName # "otel_metrics" THEN
        CASE aggregation = "avg" -> <<"avg(value_avg)">>
          [] aggregation = "min" -> <<"min(value_min)">>
          [] aggregation = "max" -> <<"max(value_max)">>
          [] aggregation = "sum" -> <<"sum(value_sum)">>
          [] OTHER -> <<aggregation>>
    ELSE <<aggregation, "(value)">>

MetricsSQL(r) ==
    <<"SELECT toStartOfInterval(timestamp, INTERVAL 5 MINUTE) as ts,">>
    \o AggFunc(AggregationOf(r), TableFor(r.age, r.age2))
    \o <<"as value FROM", TableFor(r.age, r.age2),
         "WHERE metric_name = ? AND timestamp >= ? AND timestamp <= ?">>
    \o Clause(r.service # "", "AND service_name = ?")
    \o <<"GROUP BY ts ORDER BY ts">>

MetricsArgs(r) ==
    <<r.metric, "req.StartTime", "req.EndTime">> \o Clause(r.service # "", r.service)

\* QueryTraces, QueryLogs: req.Limit after the default is applied
LimitOf(r) == IF r.limit = 0 THEN DefaultLimit ELSE r.limit

TracesSQL(r) ==
    <<"SELECT trace_id, ... FROM otel_traces WHERE 1=1">>
    \o Clause(r.traceId # "", "AND trace_id = ?")
    \o Clause(r.service # "", "AND service_name = ?")
    \o Clause(r.hasStart, "AND timestamp >= ?")
    \o Clause(r.hasEnd, "AND timestamp <= ?")
    \o Clause(r.minDuration > 0, "AND duration_ns >= ?")
    \o Clause(r.maxDuration > 0, "AND duration_ns <= ?")
    \o <<"ORDER BY timestamp DESC LIMIT", ToString(LimitOf(r))>>

TracesArgs(r) ==
    Clause(r.traceId # "", r.traceId)
    \o Clause(r.service # "", r.service)
    \o Clause(r.hasStart, "req.StartTime")
    \o Clause(r.hasEnd, "req.EndTime")
    \o Clause(r.minDuration > 0, ToString(r.minDuration))
    \o Clause(r.maxDuration > 0, ToString(r.maxDuration))

LogsSQL(r) ==
    <<"SELECT timestamp, ... FROM otel_logs WHERE timestamp >= ? AND timestamp <= ?">>
    \o Clause(r.service # "", "AND service_name = ?")
    \o Clause(r.severity # "", "AND severity_text = ?")
    \o Clause(r.traceId # "", "AND trace_id = ?")
    \o Clause(r.search # "", "AND body LIKE ?")
    \o <<"ORDER BY timestamp DESC LIMIT", ToString(LimitOf(r))>>

LogsArgs(r) ==
    <<"req.StartTime", "req.EndTime">>
    \o Clause(r.service # "", r.service)
    \o Clause(r.severity # "", r.severity)
    \o Clause(r.traceId # "", r.traceId)
    \o Clause(r.search # "", <<"%", r.search, "%">>)

\* what a handler does with the request once the SQL text and the arguments
\* are built: 400 when the body does not decode (nothing is built or sent),
\* else s.chClient.Query is called: 500 when it fails, else the rows, 200
\* a handler that does not look at the error of Decode
HandleUndecoded(r, sql, args) ==
    IF r.storeFails THEN
        [op |-> r.op, status |-> 500, sql |-> sql, args |-> args, queries |-> 1,
         queryErrors |-> 1, returned |-> 0, total |-> 0]
    ELSE
        [op |-> r.op, status |-> 200, sql |-> sql, args |-> args, queries |-> 1,
         queryErrors |-> 0, returned |-> ScanLoop(r.stream.rows),
         total |-> ScanLoop(r.stream.rows)]

Handle(r, sql, args) ==
    IF ~r.bodyValid THEN
        [op |-> r.op, status |-> 400, sql |-> <<>>, args |-> <<>>, queries |-> 0,
         queryErrors |-> 1, returned |-> 0, total |-> 0]
    ELSE IF r.storeFails THEN
        [op |-> r.op, status |-> 500, sql |-> sql, args |-> args, queries |-> 1,
         queryErrors |-> 1, returned |-> 0, total |-> 0]
    ELSE
        [op |-> r.op, status |-> 200, sql |-> sql, args |-> args, queries |-> 1,
         queryErrors |-> 0, returned |-> ScanLoop(r.stream.rows),
         total |-> ScanLoop(r.stream.rows)]

\* GetServiceStats: the query text is fixed; a query error is answered 500
\* without touching the query-error counter; the rows read are encoded
HandleStats(r) ==
    IF r.storeFails THEN
        [op |-> r.op, status |-> 500, sql |-> <<"SELECT service_name, ...">>,
         args |-> <<>>, queries |-> 1, queryErrors |-> 0, returned |-> 0,
         total |-> 0]
    ELSE
        [op |-> r.op, status |-> 200, sql |-> <<"SELECT service_name, ...">>,
         args |-> <<>>, queries |-> 1, queryErrors |-> 0,
         returned |-> ScanLoop(r.stream.rows),
         total |-> ScanLoop(r.stream.rows)]

(***************************************************************************)
(* HealthCheck: the flag `ready` is a plain bool field.  main calls        *)
(* SetReady; the HTTP server runs the handlers on its own goroutines.      *)
(* Nothing orders a SetReady and a handler, so the store of one and the    *)
(* load of the other are steps with a beginning and an end that may        *)
(* overlap; a load that overlaps a store returns the old or the new value. *)
(***************************************************************************)
\* the SetReady calls main makes, in order
HealthRequests ==
    [op : {"Health"}, signal : {"spans"},
     sets : UNION {[1..k -> BOOLEAN] : k \in 0..MaxCalls}]

NoResponse == [status |-> 0, body |-> ""]

\* NewHealthCheck: &HealthCheck{ready: false}
NewHealthCheckState ==
    [op |-> "Health", ready |-> FALSE, done |-> 0, writing |-> FALSE,
     reading |-> FALSE, seen |-> {}, after |-> 0, raced |-> FALSE, probes |-> 0,
     readiness |-> NoResponse, liveness |-> NoResponse]

\* a readiness handler that answers 200 whatever the flag
ReadinessAlwaysReady(v) == [status |-> 200, body |-> "Ready"]

\* ReadinessHandler: what it writes for the value it loaded from h.ready
ReadinessResponse(v) ==
    IF v THEN [status |-> 200, body |-> "Ready"]
    ELSE [status |-> 503, body |-> "Not Ready"]

Requests ==
    HealthRequests \cup InsertRequests \cup SpanRequests \cup LogRequests
        \cup MetricsRequests \cup TraceRequests \cup LogQueryRequests
        \cup StatsRequests

\* the pipeline's variables other than store
idleVars == <<mainVars, handlerVars, timeVars, queue, storageWriteErrors, batch, wpc, wcause, wctx, wfault,
              wcall, werr, attempts, recvCount, callCount>>

CallInit ==
    /\ PipelineInit
    /\ req \in Requests
    /\ sig = req.signal
    /\ res = NoRequest

\* driver calls and results of the writer calls made so far
InsertTally ==
    IF res.op = "Insert" THEN res
    ELSE [op |-> "Insert", calls |-> 0, prepares |-> 0, appends |-> 0,
          sends |-> 0, errors |-> 0]

\* one more call client.InsertX(ctx, rows), as TestInsertEmptyBatches and
\* TestContextCancellation make them
InsertCall ==
    /\ req.op = "Insert"
    /\ InsertTally.calls < MaxCalls
    /\ LET r == Insert(req.rows, req.cancelled, req.fault,
                       IF req.fault = "append" THEN 1 ELSE 0)
           t == InsertTally
       IN  /\ store' = store \cup Range(r.committed)
           /\ res' = [op |-> "Insert",
                      calls |-> t.calls + 1,
                      prepares |-> t.prepares + r.prepares,
                      appends |-> t.appends + Len(r.appended),
                      sends |-> t.sends + r.sends,
                      errors |-> t.errors + (IF r.err = "nil" THEN 0 ELSE 1)]
    /\ UNCHANGED <<req, idleVars>>

\* the variables an Export call of one record leaves alone
exportIdleVars == <<mainVars, workerVars, timeVars, storageWriteErrors, hpc, hreq, hidx,
                    hwaited, hsent, hlost, hresp, nextId>>

\* TraceCollector.Export with one span, the channel empty: the span is
\* decoded and sent on spanChan, and the call returns
ExportSpan ==
    /\ req.op = "ExportSpan"
    /\ res = NoRequest
    /\ Len(queue) < ChanCap
    /\ queue' = Append(queue, SpanRecord(req))
    /\ received' = received + 1
    /\ res' = [op |-> "ExportSpan", resp |-> "ok"]
    /\ UNCHANGED <<req, exportIdleVars>>

\* LogsCollector.Export with one log record, the channel empty
ExportLog ==
    /\ req.op = "ExportLog"
    /\ res = NoRequest
    /\ Len(queue) < ChanCap
    /\ queue' = Append(queue, LogRecordOf(req))
    /\ received' = received + 1
    /\ res' = [op |-> "ExportLog", resp |-> "ok"]
    /\ UNCHANGED <<req, exportIdleVars>>

\* POST /api/v1/traces
QueryTraces ==
    /\ req.op = "QueryTraces"
    /\ res = NoRequest
    /\ res' = Handle(req, TracesSQL(req), TracesArgs(req))
    /\ UNCHANGED <<req, idleVars, store>>

\* POST /api/v1/metrics
QueryMetrics ==
    /\ req.op = "QueryMetrics"
    /\ res = NoRequest
    /\ res' = Handle(req, MetricsSQL(req), MetricsArgs(req))
    /\ UNCHANGED <<req, idleVars, store>>

\* POST /api/v1/logs
QueryLogs ==
    /\ req.op = "QueryLogs"
    /\ res = NoRequest
    /\ res' = Handle(req, LogsSQL(req), LogsArgs(req))
    /\ UNCHANGED <<req, idleVars, store>>

\* GET /api/v1/services/stats
GetServiceStats ==
    /\ req.op = "GetServiceStats"
    /\ res = NoRequest
    /\ res' = HandleStats(req)
    /\ UNCHANGED <<req, idleVars, store>>

\* monitoring.NewHealthCheck()
NewHealthCheck ==
    /\ req.op = "Health"
    /\ res = NoRequest
    /\ res' = NewHealthCheckState
    /\ UNCHANGED <<req, idleVars, store>>

\* main enters SetReady(v): the store "h.ready = ready" begins
SetReadyBegin ==
    /\ res.op = "Health"
    /\ ~res.writing
    /\ res.done < Len(req.sets)
    /\ res' = [res EXCEPT !.writing = TRUE,
                          !.raced = IF res.reading THEN TRUE ELSE @]
    /\ UNCHANGED <<req, idleVars, store>>

\* the store is done and SetReady returns
SetReadyEnd ==
    /\ res.op = "Health"
    /\ res.writing
    /\ res' = [res EXCEPT !.writing = FALSE,
                          !.ready = req.sets[res.done + 1],
                          !.done = @ + 1,
                          !.seen = IF res.reading
                                   THEN @ \cup {req.sets[res.done + 1]} ELSE @]
    /\ UNCHANGED <<req, idleVars, store>>

\* an HTTP goroutine enters ReadinessHandler: the load "if h.ready" begins
ReadinessBegin ==
    /\ res.op = "Health"
    /\ ~res.reading
    /\ res.probes < MaxCalls
    /\ res' = [res EXCEPT !.reading = TRUE, !.seen = {res.ready},
                          !.after = res.done, !.raced = res.writing]
    /\ UNCHANGED <<req, idleVars, store>>

\* the load returns v and the handler writes its response
ReadinessEnd(v) ==
    /\ res.op = "Health"
    /\ res.reading
    /\ v \in res.seen
    /\ res' = [res EXCEPT !.reading = FALSE, !.seen = {},
                          !.probes = @ + 1,
                          !.readiness = ReadinessResponse(v)]
    /\ UNCHANGED <<req, idleVars, store>>

\* LivenessHandler
LivenessHandler ==
    /\ res.op = "Health"
    /\ res' = [res EXCEPT !.liveness = [status |-> 200, body |-> "OK"]]
    /\ UNCHANGED <<req, idleVars, store>>

CallNext ==
    \/ NewHealthCheck
    \/ SetReadyBegin
    \/ SetReadyEnd
    \/ ReadinessBegin
    \/ \E v \in BOOLEAN : ReadinessEnd(v)
    \/ LivenessHandler
    \/ InsertCall
    \/ ExportSpan
    \/ ExportLog
    \/ QueryTraces
    \/ QueryMetrics
    \/ QueryLogs
    \/ GetServiceStats

CallSpec == CallInit /\ [][CallNext]_vars

TypeOK ==
    /\ sig \in Signals
    /\ mainpc \in {"serving", "setReady", "cancel", "gracefulStop", "stopWait",
                   "wgWait", "complete", "exited"}
    /\ ready \in BOOLEAN /\ ctxDone \in BOOLEAN /\ storeClosed \in BOOLEAN
    /\ grpc \in {"serving", "stopping", "stopped"}
    /\ \A w \in Workers : wpc[w] \in {"select", "insert", "returned", "done"}
    /\ \A h \in Handlers : hpc[h] \in {"idle", "running", "returned"}


(***************************************************************************)
(* Definitions used to state the properties.                               *)
(***************************************************************************)
RECURSIVE SumSeq(_)
SumSeq(s) == IF s = <<>> THEN 0 ELSE Head(s) + SumSeq(Tail(s))

\* the records of an envelope, as a set
InputIds(env) ==
    UNION {UNION {Range(env[r][s]) : s \in DOMAIN env[r]} : r \in DOMAIN env}

\* the elements of a finite set of numbers in ascending order: records are
\* numbered in envelope order, so this is the envelope order of InputIds
Ascending(S) ==
    CHOOSE f \in [1..Cardinality(S) -> S] :
        \A i, j \in 1..Cardinality(S) : i < j => f[i] < f[j]

\* the records some Export call has sent on the channel
SentIds == UNION {Range(hsent[h]) : h \in Handlers}

\* number of places (channel slots, accumulator slots) that hold the record
Occurrences(id) ==
    Cardinality({i \in 1..Len(queue) : queue[i] = id})
    + SumSeq([w \in Workers |->
                 Cardinality({i \in 1..Len(batch[w]) : batch[w][i] = id})])

\* the counters of the monitoring package that the collector's code updates
\* or could update for the signal
Counters == <<received, storageWriteErrors>>

\* records the Export calls have dropped at the hand-off timeout
DroppedCount == SumSeq([h \in Handlers |-> Len(hlost[h])])

IsPrefix(p, s) == Len(p) <= Len(s) /\ p = SubSeq(s, 1, Len(p))

\* the writer call that has returned to worker w failed with a transport error
TransientFailure(w) ==
    wpc[w] = "returned" /\ wfault[w] \in {"prepare", "send"} /\ ~wctx[w]

(***************************************************************************)
(* C1: graceful drain.  No worker exits before flushing its accumulator,   *)
(* and the batch of a worker's final flush (the one the ctx.Done case      *)
(* makes) is committed to the store when the driver meets no fault.        *)
(***************************************************************************)
C1_GracefulDrain ==
    \A w \in Workers :
        /\ wpc[w] = "done" => batch[w] = <<>>
        /\ (wpc[w] = "returned" /\ wcause[w] = "shutdown" /\ wfault[w] = "none")
               => Range(batch[w]) \subseteq store

(***************************************************************************)
(* C2: a record handed to the channel is dequeued exactly once: no record  *)
(* is received twice or is in two batches, and when the process has        *)
(* exited every record that was sent on the channel has been received.     *)
(***************************************************************************)
C2_DequeuedExactlyOnce ==
    /\ \A id \in RecordIds :
           recvCount[id] <= 1 /\ callCount[id] <= 1 /\ Occurrences(id) <= 1
    /\ mainpc = "exited" => \A id \in SentIds : recvCount[id] = 1

C4_RetryUntilMaxAttempts ==
    [][\A w \in Workers :
          /\ attempts'[w] <= RetryMaxAttempts
          /\ (TransientFailure(w) /\ attempts[w] < RetryMaxAttempts
                  /\ wpc'[w] # wpc[w])
                 => (wpc'[w] = "insert" /\ batch'[w] = batch[w]
                         /\ attempts'[w] = attempts[w] + 1)]_vars

(***************************************************************************)
(* C5: an Export call blocked on a full channel does not start another     *)
(* wait step once HandoffTimeoutMs have passed; every record the loop has  *)
(* dealt with was either sent or dropped; the call returns the response    *)
(* with a nil error after the last record.                                 *)
(***************************************************************************)
C5_BoundedHandoff ==
    \A h \in Handlers :
        /\ hwaited[h] - WaitStepMs < HandoffTimeoutMs
        /\ Len(hsent[h]) + Len(hlost[h]) = hidx[h]
        /\ hpc[h] = "returned" => hresp[h] = "ok"
        /\ (hpc[h] = "returned" /\ sig # "metrics")
               => hidx[h] = Cardinality(InputIds(hreq[h]))

C5_Witness ==
    \E h \in Handlers : hpc[h] = "returned" /\ hlost[h] # <<>>

(***************************************************************************)
(* C6: the shutdown phases happen in the order readiness off, transport    *)
(* stops accepting, shutdown signal raised, wait for the workers, store    *)
(* client closed.                                                          *)
(***************************************************************************)
C6_ShutdownOrder ==
    /\ grpc # "serving" => ~ready
    /\ ctxDone => grpc # "serving"
    /\ mainpc \in {"wgWait", "complete", "exited"} => ctxDone
    /\ storeClosed => mainpc = "exited" /\ \A w \in Workers : wpc[w] = "done"

(***************************************************************************)
(* C7: main waits for the workers no longer than shutdown_timeout.         *)
(***************************************************************************)
C7_WaitDeadline ==
    mainpc = "wgWait" => waitedS <= ShutdownTimeoutS

(***************************************************************************)
(* C8: a metrics Export call whose N data points fit in the metric queue   *)
(* has handed all N to the queue when it returns.                          *)
(***************************************************************************)
C8_MetricsEnqueued ==
    \A h \in Handlers :
        (sig = "metrics" /\ hpc[h] = "returned"
             /\ Cardinality(InputIds(hreq[h])) <= QueueSize)
            => hsent[h] = Ascending(InputIds(hreq[h]))

(***************************************************************************)
(* C9: a trace Export call that returns has sent the spans of its envelope *)
(* on the channel in envelope order, once each, unless a hand-off timed    *)
(* out; a hand-off times out only after the call waited on a full channel; *)
(* the call returns without error (also for an empty envelope).            *)
(***************************************************************************)
C9_ExportEnqueuesEverySpan ==
    [][\A h \in Handlers :
          /\ (sig = "spans" /\ hpc'[h] = "returned")
                 => /\ hresp'[h] = "ok"
                    /\ hlost'[h] = <<>>
                           => hsent'[h] = Ascending(InputIds(hreq'[h]))
          /\ Len(hlost'[h]) > Len(hlost[h]) => hwaited[h] > 0
          /\ hwaited'[h] > hwaited[h] => Len(queue) >= QueueSize]_vars

C9_Witness ==
    \E h \in Handlers :
        /\ sig = "spans" /\ hpc[h] = "returned"
        /\ Len(hsent[h]) = 2 /\ hsent[h] = Ascending(InputIds(hreq[h]))

(***************************************************************************)
(* C10: a writer call on a non-empty batch prepares one insert, appends    *)
(* the rows in input order and sends once; when PrepareBatch or an Append  *)
(* fails (also on a cancelled context) it returns an error, sends nothing  *)
(* and no row of the batch is in the store.                                *)
(***************************************************************************)
C10_SingleCommitOrNothing ==
    \A w \in Workers :
        wpc[w] = "returned" =>
            /\ wcall[w].prepares = 1 /\ wcall[w].sends <= 1
            /\ IsPrefix(wcall[w].appended, batch[w])
            /\ werr[w] = "nil"
                   => /\ wcall[w].appended = batch[w] /\ wcall[w].sends = 1
                      /\ Range(batch[w]) \subseteq store
            /\ (wctx[w] \/ wfault[w] \in {"prepare", "append"})
                   => /\ werr[w] # "nil" /\ wcall[w].sends = 0
                      /\ Range(batch[w]) \cap store = {}

C10_Witness ==
    \E w \in Workers :
        /\ wpc[w] = "returned" /\ wfault[w] = "append"
        /\ Len(batch[w]) = 2 /\ Len(wcall[w].appended) = 1

(***************************************************************************)
(* C11: a writer function called with an empty batch returns success and   *)
(* makes no driver call (no PrepareBatch, Append or Send) and leaves the   *)
(* table as it was, however many times it is called and whatever the       *)
(* state of the context and of the connection.                             *)
(***************************************************************************)
C11_EmptyBatchNoOp ==
    (req.op = "Insert" /\ req.rows = <<>> /\ res.op = "Insert")
        => /\ res.prepares = 0 /\ res.appends = 0 /\ res.sends = 0
           /\ res.errors = 0
           /\ store = {}

C11_Witness ==
    /\ req.op = "Insert" /\ req.rows = <<>> /\ req.fault = "prepare"
    /\ req.cancelled
    /\ res.op = "Insert" /\ res.calls = MaxCalls

(***************************************************************************)
(* C12: the channel of each signal has capacity queue_size and never holds *)
(* more than queue_size records.                                           *)
(***************************************************************************)
C12_QueueBounded ==
    Len(queue) <= QueueSize

\* the channel is full of one Export call's records while another Export
\* call is blocked on it
C12_Witness ==
    /\ Len(queue) = QueueSize
    /\ \E h1, h2 \in Handlers :
           /\ h1 # h2 /\ hsent[h1] # <<>>
           /\ hpc[h2] = "running" /\ hwaited[h2] = HandoffTimeoutMs

(***************************************************************************)
(* C13: each record dropped at the hand-off timeout increments a counter   *)
(* of its signal.  The monitoring package has no drop counter, so the      *)
(* property is stated for its counters as a whole: a step that drops a     *)
(* record changes some counter.                                            *)
(***************************************************************************)
C13_DropCounted ==
    [][DroppedCount' > DroppedCount => Counters' # Counters]_vars

(***************************************************************************)
(* C14: when flush gives up a batch whose writer call returned an error,   *)
(* the write-failure counter StorageWrites{table, "error"} goes up by one. *)
(***************************************************************************)
C14_WriteFailureCounted ==
    [][\A w \in Workers :
          (wpc[w] = "returned" /\ werr[w] # "nil" /\ wpc'[w] # "returned")
              => storageWriteErrors' = storageWriteErrors + 1]_vars

\* the value the record should carry for a key of the resource it came from
ExpectedAttribute(resource, key) ==
    IF key \in resource THEN AttributeValue[key] ELSE ""

(***************************************************************************)
(* C15: every Span sent on the span channel has end_time >= start_time and *)
(* duration_ns = end_time - start_time (a span whose end is before its     *)
(* start is not sent).                                                     *)
(***************************************************************************)
C15_DurationConsistent ==
    req.op = "ExportSpan" =>
        \A i \in 1..Len(queue) :
            /\ queue[i].endTime >= queue[i].startTime
            /\ queue[i].durationNs = queue[i].endTime - queue[i].startTime

(***************************************************************************)
(* C16: every Span sent on the span channel carries the lowercase names of *)
(* the otel_traces enum columns for its kind and its status code.          *)
(***************************************************************************)
C16_LowercaseEnumNames ==
    req.op = "ExportSpan" =>
        \A i \in 1..Len(queue) :
            /\ queue[i].spanKind \in
                   {"internal", "server", "client", "producer", "consumer"}
            /\ queue[i].statusCode \in {"unset", "ok", "error"}

(***************************************************************************)
(* C17: every record sent on a channel carries, as its service identity,   *)
(* the values its resource gives service.name, service.namespace,          *)
(* service.instance.id and deployment.environment (and host.name for a log *)
(* record), and "" for the keys the resource does not have.                *)
(***************************************************************************)
C17_ServiceIdentity ==
    req.op \in {"ExportSpan", "ExportLog"} =>
        \A i \in 1..Len(queue) :
            /\ queue[i].serviceName
                   = ExpectedAttribute(req.resource, "service.name")
            /\ queue[i].serviceNamespace
                   = ExpectedAttribute(req.resource, "service.namespace")
            /\ queue[i].serviceInstanceID
                   = ExpectedAttribute(req.resource, "service.instance.id")
            /\ queue[i].deploymentEnvironment
                   = ExpectedAttribute(req.resource, "deployment.environment")
            /\ req.op = "ExportLog"
                   => queue[i].hostName
                          = ExpectedAttribute(req.resource, "host.name")

\* the aggregations the metrics API defines
ValidAggregations == {"avg", "min", "max", "sum"}

\* the table a metrics query of age t days reads
ExpectedTable(t) ==
    IF t <= RawWindowDays THEN "otel_metrics"
    ELSE IF t <= FiveMinuteWindowDays THEN "otel_metrics_5m"
    ELSE "otel_metrics_1h"

\* the value expression of a metrics query, as the pieces of its text
ExpectedValue(agg, table) ==
    IF table = "otel_metrics" THEN <<agg, "(value)">>
    ELSE CASE agg = "avg" -> <<"avg(value_avg)">>
           [] agg = "min" -> <<"min(value_min)">>
           [] agg = "max" -> <<"max(value_max)">>
           [] agg = "sum" -> <<"sum(value_sum)">>

\* the SQL text selects the value expression from the table
SelectsFrom(sql, value, table) ==
    /\ Len(sql) >= Len(value) + 3
    /\ SubSeq(sql, 2, Len(value) + 1) = value
    /\ sql[Len(value) + 2] = "as value FROM"
    /\ sql[Len(value) + 3] = table

\* the non-empty strings of a request that the caller chose freely
CallerStrings(r) ==
    (CASE r.op = "QueryMetrics" -> {r.metric, r.service, r.aggregation}
       [] r.op = "QueryTraces" -> {r.traceId, r.service}
       [] r.op = "QueryLogs" -> {r.service, r.severity, r.traceId, r.search}
       [] OTHER -> {})
    \ ({""} \cup ValidAggregations)

C19_BadAggregationRejected ==
    (req.op = "QueryMetrics" /\ res.op = "QueryMetrics" /\ req.bodyValid
         /\ req.aggregation \notin ValidAggregations \cup {""})
        => res.status = 400 /\ res.queries = 0

(***************************************************************************)
(* C20: no string chosen by the caller is a piece of the SQL text of a     *)
(* query handler; such strings are passed as bound arguments only.         *)
(***************************************************************************)
C20_NoCallerStringInSQL ==
    res.op \in {"QueryTraces", "QueryMetrics", "QueryLogs"}
        => Range(res.sql) \cap CallerStrings(req) = {}

\* the handlers of the query service that decode a request body
BodyHandlers == {"QueryTraces", "QueryMetrics", "QueryLogs"}

QueryHandlers == BodyHandlers \cup {"GetServiceStats"}

\* the store was sent the query of the request and answered it with an error
StoreRefused ==
    /\ res.op \in QueryHandlers /\ req.storeFails
    /\ req.op \in BodyHandlers => req.bodyValid

\* the store accepted the query of the request and began to stream rows
Streaming ==
    /\ res.op \in QueryHandlers /\ ~req.storeFails
    /\ req.op \in BodyHandlers => req.bodyValid

(***************************************************************************)
(* C21: in each of the four query handlers, when the store returns an      *)
(* error for the query, the response is 500 and the query-error counter    *)
(* is incremented.                                                         *)
(***************************************************************************)
C21_StoreErrorIs500AndCounted ==
    StoreRefused => res.status = 500 /\ res.queryErrors = 1

(***************************************************************************)
(* C22: when the store fails while the rows are streamed the response is   *)
(* 500; when it does not, rows that fail to scan are skipped and the       *)
(* reported total is the number of rows returned.                          *)
(***************************************************************************)
C22_StreamFailureIs500 ==
    Streaming =>
        /\ req.stream.fails => res.status = 500
        /\ ~req.stream.fails
               => /\ res.status = 200
                  /\ res.returned
                         = Cardinality({i \in 1..Len(req.stream.rows) :
                                           req.stream.rows[i] = "row"})
                  /\ res.total = res.returned

(***************************************************************************)
(* C23: QueryTraces, QueryMetrics and QueryLogs answer a body that is not  *)
(* valid JSON with 400, increment the query-error counter and send no      *)
(* query to the store.                                                     *)
(***************************************************************************)
C23_InvalidJSONIs400 ==
    (res.op \in BodyHandlers /\ ~req.bodyValid)
        => /\ res.status = 400 /\ res.queryErrors = 1
           /\ res.queries = 0 /\ res.sql = <<>>

C23_Witness ==
    /\ res.op = "QueryLogs" /\ ~req.bodyValid /\ ~req.storeFails
    /\ req.search # "" /\ res.status = 400

\* the value of the last of the first n SetReady calls; none: not ready
LastSet(n) == IF n = 0 THEN FALSE ELSE req.sets[n]

(***************************************************************************)
(* C24: a SetReady call and a ReadinessHandler call never access the flag  *)
(* at the same time: the store of one does not overlap the load of the     *)
(* other.                                                                  *)
(***************************************************************************)
C24_ReadyFlagSynchronized ==
    res.op = "Health" => ~(res.writing /\ res.reading)

(***************************************************************************)
(* C25: a HealthCheck starts not ready and the flag is the last value set; *)
(* a readiness call that no SetReady overlaps answers 200 "Ready" when the *)
(* last value set before it is true and 503 "Not Ready" otherwise; the     *)
(* liveness handler answers 200 "OK".                                      *)
(***************************************************************************)
C25_ReadinessFollowsLastSet ==
    res.op = "Health" =>
        /\ res.ready = LastSet(res.done)
        /\ (res.probes > 0 /\ ~res.reading /\ ~res.raced)
               => res.readiness
                      = (IF LastSet(res.after)
                         THEN [status |-> 200, body |-> "Ready"]
                         ELSE [status |-> 503, body |-> "Not Ready"])
        /\ res.liveness \in {NoResponse, [status |-> 200, body |-> "OK"]}

\* SetReady(true), SetReady(true), SetReady(false), then a readiness call
C25_Witness ==
    /\ res.op = "Health" /\ req.sets = <<TRUE, TRUE, FALSE>>
    /\ res.probes > 0 /\ ~res.reading /\ ~res.raced /\ res.after = 3
    /\ res.readiness = [status |-> 503, body |-> "Not Ready"]
    /\ res.liveness = [status |-> 200, body |-> "OK"]

(***************************************************************************)
(* C29: when a flush ends after a writer call that returned an error, the  *)
(* worker's accumulator is empty and, unless the flush was the shutdown    *)
(* flush, the worker is back at its select; no record is handed to the     *)
(* writer a second time, so no later batch holds a record of an earlier    *)
(* one.                                                                    *)
(***************************************************************************)
C29_FailedBatchDiscarded ==
    [][/\ \A w \in Workers :
             (wpc[w] = "returned" /\ wpc'[w] # "returned" /\ werr[w] # "nil")
                 => /\ batch'[w] = <<>>
                    /\ wcause[w] # "shutdown" => wpc'[w] = "select"
       /\ \A id \in RecordIds : callCount'[id] <= 1]_vars

\* a worker at its select holds a record while a record of an earlier batch,
\* whose write failed, is in no accumulator and not in the store
C29_Witness ==
    \E w \in Workers, id \in RecordIds :
        /\ wpc[w] = "select" /\ batch[w] # <<>>
        /\ callCount[id] = 1 /\ id \notin store
        /\ \A v \in Workers : id \notin Range(batch[v])
        /\ \A i \in 1..Len(batch[w]) : batch[w][i] > id

(***************************************************************************)
(* C30: every writer call a flush issues once the context is cancelled is  *)
(* made with that cancelled context: the context of a call is the one main *)
(* cancels, and the shutdown flush always runs under a cancelled context.  *)
(***************************************************************************)
C30_ShutdownFlushUsesCancelledContext ==
    [][\A w \in Workers :
          (wpc'[w] = "insert" /\ wpc[w] # "insert")
              => /\ wctx'[w] = ctxDone
                 /\ wcause'[w] = "shutdown" => wctx'[w]]_vars

\* the shutdown flush of a non-empty accumulator is in its writer call
C30_Witness ==
    \E w \in Workers :
        /\ wpc[w] = "insert" /\ wcause[w] = "shutdown"
        /\ wctx[w] /\ ctxDone /\ batch[w] # <<>>

(***************************************************************************)
(* C26: a batch of fewer than BatchSize records is handed to the writer    *)
(* only when at least BatchTimeout has passed since its first record was   *)
(* appended, or when the context is cancelled.                             *)
(***************************************************************************)
C26_PartialFlushOnlyAfterTimeout ==
    \A w \in Workers :
        (wpc[w] = "insert" /\ Len(batch[w]) < BatchSize)
            => (batchAge[w] >= BatchTimeout \/ wctx[w])

(***************************************************************************)
(* C26, amended: a batch of fewer than BatchSize records is handed to the  *)
(* writer only by the tick case of the worker's periodic ticker or by the  *)
(* shutdown case, under the cancelled context; at a tick the batch's first *)
(* record may be younger than BatchTimeout, and is never older.            *)
(***************************************************************************)
C26_PartialFlushOnTickOrShutdown ==
    \A w \in Workers :
        wpc[w] = "insert" =>
            /\ Len(batch[w]) < BatchSize
                   => \/ wcause[w] = "tick"
                      \/ wcause[w] = "shutdown" /\ wctx[w]
            /\ wcause[w] = "size" => Len(batch[w]) = BatchSize
            /\ batchAge[w] <= BatchTimeout

\* a tick flushes a batch whose first record is younger than BatchTimeout
C26_Witness ==
    \E w \in Workers :
        /\ wpc[w] = "insert" /\ wcause[w] = "tick" /\ ~wctx[w]
        /\ Len(batch[w]) < BatchSize /\ batchAge[w] < BatchTimeout

(***************************************************************************)
(* C27: while writer calls return at once, no record stays in a worker's   *)
(* accumulator for more than BatchTimeout: when a batch is handed to the   *)
(* writer its first record was appended at most BatchTimeout before.       *)
(***************************************************************************)
C27_FlushedWithinTimeout ==
    \A w \in Workers : batch[w] # <<>> => batchAge[w] <= BatchTimeout

\* a batch that never filled is handed to the writer by the tick, exactly
\* BatchTimeout after its first record was appended
C27_Witness ==
    \E w \in Workers :
        /\ wpc[w] = "insert" /\ wcause[w] = "tick" /\ ~ctxDone
        /\ Len(batch[w]) < BatchSize /\ batchAge[w] = BatchTimeout

=============================================================================
